---- MODULE Spec2Model ----
(***************************************************************************)
(* Model of the qanun survey API (src/main.py): the responses table, the   *)
(* submit / admin_list / admin_summary / health handlers, and the JSON     *)
(* encoding the handlers store and read back.                              *)
(*                                                                         *)
(* A text is a sequence of one-character strings.  A JSON value is a pair  *)
(* <<tag, body>>: <<"null", <<>>>>, <<"true", <<>>>>, <<"false", <<>>>>,   *)
(* <<"num", n>>, <<"str", chars>>, <<"list", items>> and                   *)
(* <<"obj", pairs>> with pairs a sequence of <<key chars, value>> in       *)
(* insertion order (a Python dict).                                        *)
(***************************************************************************)
EXTENDS Integers, Sequences, FiniteSets, TLC

\* ------------------------------------------------------------------------
\* Characters and str.strip()
\* ------------------------------------------------------------------------
QUOTE == "\""
BACKSLASH == "\\"
Whitespace == {" "}
Digits == <<"0", "1", "2", "3", "4", "5", "6", "7", "8", "9">>
DigitSet == {Digits[i] : i \in 1..10}

RECURSIVE LStrip(_)
LStrip(s) ==
    IF s # <<>> /\ Head(s) \in Whitespace THEN LStrip(Tail(s)) ELSE s

RECURSIVE RStrip(_)
RStrip(s) ==
    IF s # <<>> /\ s[Len(s)] \in Whitespace
    THEN RStrip(SubSeq(s, 1, Len(s) - 1))
    ELSE s

\* v.strip()
Strip(s) == RStrip(LStrip(s))

\* ------------------------------------------------------------------------
\* JSON values
\* ------------------------------------------------------------------------
JNull == <<"null", <<>>>>
JTrue == <<"true", <<>>>>
JFalse == <<"false", <<>>>>
JNum(n) == <<"num", n>>
JStr(s) == <<"str", s>>
JList(items) == <<"list", items>>
JObj(pairs) == <<"obj", pairs>>

\* isinstance(v, dict) / isinstance(v, str) / isinstance(v, list)
IsDict(v) == v[1] = "obj"
IsStr(v) == v[1] = "str"
IsList(v) == v[1] = "list"

\* d[k] = v on a Python dict: a present key keeps its position.
DictSet(pairs, k, v) ==
    IF \E i \in 1..Len(pairs) : pairs[i][1] = k
    THEN [i \in 1..Len(pairs) |-> IF pairs[i][1] = k THEN <<k, v>> ELSE pairs[i]]
    ELSE Append(pairs, <<k, v>>)

\* d.get(k): None (JSON null) when the key is absent.
DictGet(d, k) ==
    IF \E i \in 1..Len(d[2]) : d[2][i][1] = k
    THEN d[2][CHOOSE i \in 1..Len(d[2]) : d[2][i][1] = k][2]
    ELSE JNull

\* ------------------------------------------------------------------------
\* json.dumps(payload, ensure_ascii=False)
\* ------------------------------------------------------------------------
RECURSIVE NatToChars(_)
NatToChars(n) ==
    IF n < 10 THEN <<Digits[n + 1]>>
    ELSE NatToChars(n \div 10) \o <<Digits[(n % 10) + 1]>>

RECURSIVE EscapeChars(_)
EscapeChars(s) ==
    IF s = <<>> THEN <<>>
    ELSE (IF Head(s) \in {QUOTE, BACKSLASH}
          THEN <<BACKSLASH, Head(s)>>
          ELSE <<Head(s)>>) \o EscapeChars(Tail(s))

DumpStr(s) == <<QUOTE>> \o EscapeChars(s) \o <<QUOTE>>

RECURSIVE dumps(_)
RECURSIVE DumpItems(_)
RECURSIVE DumpPairs(_)
DumpItems(items) ==
    IF items = <<>> THEN <<>>
    ELSE dumps(Head(items))
         \o (IF Len(items) > 1 THEN <<",", " ">> ELSE <<>>)
         \o DumpItems(Tail(items))

DumpPairs(pairs) ==
    IF pairs = <<>> THEN <<>>
    ELSE DumpStr(Head(pairs)[1]) \o <<":", " ">> \o dumps(Head(pairs)[2])
         \o (IF Len(pairs) > 1 THEN <<",", " ">> ELSE <<>>)
         \o DumpPairs(Tail(pairs))

dumps(v) ==
    CASE v[1] = "null" -> <<"n", "u", "l", "l">>
      [] v[1] = "true" -> <<"t", "r", "u", "e">>
      [] v[1] = "false" -> <<"f", "a", "l", "s", "e">>
      [] v[1] = "num" -> NatToChars(v[2])
      [] v[1] = "str" -> DumpStr(v[2])
      [] v[1] = "list" -> <<"[">> \o DumpItems(v[2]) \o <<"]">>
      [] v[1] = "obj" -> <<"{">> \o DumpPairs(v[2]) \o <<"}">>

\* ------------------------------------------------------------------------
\* json.loads(payload_str): a parse result is <<ok, value, next position>>
\* ------------------------------------------------------------------------
ParseFail == <<FALSE, JNull, 0>>

At(t, i) == IF i >= 1 /\ i <= Len(t) THEN t[i] ELSE "EOF"

RECURSIVE SkipWS(_, _)
SkipWS(t, i) == IF At(t, i) \in Whitespace THEN SkipWS(t, i + 1) ELSE i

\* The text has the word w at position i.
HasWord(t, i, w) ==
    /\ i + Len(w) - 1 <= Len(t)
    /\ \A k \in 1..Len(w) : t[i + k - 1] = w[k]

\* the body of a string literal, from the position after the opening quote
RECURSIVE ParseStrBody(_, _, _)
ParseStrBody(t, i, acc) ==
    CASE At(t, i) = "EOF" -> ParseFail
      [] At(t, i) = QUOTE -> <<TRUE, JStr(acc), i + 1>>
      [] At(t, i) = BACKSLASH ->
            IF At(t, i + 1) \in {QUOTE, BACKSLASH}
            THEN ParseStrBody(t, i + 2, Append(acc, t[i + 1]))
            ELSE ParseFail
      [] OTHER -> ParseStrBody(t, i + 1, Append(acc, t[i]))

DigitVal(c) == (CHOOSE k \in 1..10 : Digits[k] = c) - 1

RECURSIVE ParseDigits(_, _, _)
ParseDigits(t, i, acc) ==
    IF At(t, i) \in DigitSet
    THEN ParseDigits(t, i + 1, 10 * acc + DigitVal(t[i]))
    ELSE <<TRUE, JNum(acc), i>>

\* a leading zero ends the integer part: "01" is "0" followed by extra data
ParseNumber(t, i) ==
    IF t[i] = "0" THEN <<TRUE, JNum(0), i + 1>> ELSE ParseDigits(t, i, 0)

RECURSIVE ParseValue(_, _)
RECURSIVE ParseItems(_, _, _)
RECURSIVE ParsePairs(_, _, _)

\* after "[" or after a ",": a value, then "," or "]"
ParseItems(t, i, acc) ==
    LET r == ParseValue(t, SkipWS(t, i)) IN
    IF ~r[1] THEN ParseFail
    ELSE LET j == SkipWS(t, r[3]) IN
         CASE At(t, j) = "," -> ParseItems(t, j + 1, Append(acc, r[2]))
           [] At(t, j) = "]" -> <<TRUE, JList(Append(acc, r[2])), j + 1>>
           [] OTHER -> ParseFail

\* after "{" or after a ",": a string key, ":", a value, then "," or "}"
ParsePairs(t, i, acc) ==
    LET k == SkipWS(t, i) IN
    IF At(t, k) # QUOTE THEN ParseFail
    ELSE LET key == ParseStrBody(t, k + 1, <<>>) IN
         IF ~key[1] THEN ParseFail
         ELSE LET c == SkipWS(t, key[3]) IN
              IF At(t, c) # ":" THEN ParseFail
              ELSE LET r == ParseValue(t, SkipWS(t, c + 1)) IN
                   IF ~r[1] THEN ParseFail
                   ELSE LET j == SkipWS(t, r[3])
                            d == DictSet(acc, key[2][2], r[2])
                        IN CASE At(t, j) = "," -> ParsePairs(t, j + 1, d)
                             [] At(t, j) = "}" -> <<TRUE, JObj(d), j + 1>>
                             [] OTHER -> ParseFail

ParseValue(t, i) ==
    CASE At(t, i) = QUOTE -> ParseStrBody(t, i + 1, <<>>)
      [] At(t, i) = "{" ->
            IF At(t, SkipWS(t, i + 1)) = "}"
            THEN <<TRUE, JObj(<<>>), SkipWS(t, i + 1) + 1>>
            ELSE ParsePairs(t, i + 1, <<>>)
      [] At(t, i) = "[" ->
            IF At(t, SkipWS(t, i + 1)) = "]"
            THEN <<TRUE, JList(<<>>), SkipWS(t, i + 1) + 1>>
            ELSE ParseItems(t, i + 1, <<>>)
      [] At(t, i) \in DigitSet -> ParseNumber(t, i)
      [] HasWord(t, i, <<"n", "u", "l", "l">>) -> <<TRUE, JNull, i + 4>>
      [] HasWord(t, i, <<"t", "r", "u", "e">>) -> <<TRUE, JTrue, i + 4>>
      [] HasWord(t, i, <<"f", "a", "l", "s", "e">>) -> <<TRUE, JFalse, i + 5>>
      [] OTHER -> ParseFail

\* json.loads(t): <<TRUE, value>>, or <<FALSE, null>> when it raises
loads(t) ==
    LET r == ParseValue(t, SkipWS(t, 1)) IN
    IF r[1] /\ SkipWS(t, r[3]) = Len(t) + 1
    THEN <<TRUE, r[2]>>
    ELSE <<FALSE, JNull>>

\* ------------------------------------------------------------------------
\* Field names (admin_summary) and the keys the handlers read
\* ------------------------------------------------------------------------
K_payload == <<"p", "a", "y", "l", "o", "a", "d">>
K_raw == <<"r", "a", "w">>
F_age == <<"a", "g", "e">>
F_app_rating == <<"a", "p", "p", "_", "r", "a", "t", "i", "n", "g">>
F_will_use == <<"w", "i", "l", "l", "_", "u", "s", "e">>
F_legal_status == <<"l", "e", "g", "a", "l", "_", "s", "t", "a", "t", "u", "s">>
F_ai_use_work == <<"a", "i", "_", "u", "s", "e", "_", "w", "o", "r", "k">>
F_ai_sources_pref ==
    <<"a", "i", "_", "s", "o", "u", "r", "c", "e", "s", "_", "p", "r", "e", "f">>
F_ai_trust == <<"a", "i", "_", "t", "r", "u", "s", "t">>
F_ai_feature == <<"a", "i", "_", "f", "e", "a", "t", "u", "r", "e">>
F_ai_disclaimer ==
    <<"a", "i", "_", "d", "i", "s", "c", "l", "a", "i", "m", "e", "r">>
F_why_use == <<"w", "h", "y", "_", "u", "s", "e">>
F_signup == <<"s", "i", "g", "n", "u", "p">>
F_payment == <<"p", "a", "y", "m", "e", "n", "t">>

single_fields ==
    <<F_age, F_app_rating, F_will_use, F_legal_status, F_ai_use_work,
      F_ai_sources_pref, F_ai_trust, F_ai_feature, F_ai_disclaimer>>
multi_fields == <<F_why_use, F_signup, F_payment>>

\* ------------------------------------------------------------------------
\* collections.Counter: a sequence of <<label, count>> in insertion order
\* ------------------------------------------------------------------------
\* c[k] += 1
CounterInc(c, k) ==
    IF \E i \in 1..Len(c) : c[i][1] = k
    THEN [i \in 1..Len(c) |-> IF c[i][1] = k THEN <<k, c[i][2] + 1>> ELSE c[i]]
    ELSE Append(c, <<k, 1>>)

\* sorted(items, key=count)[::-1]: equal counts come out in reverse
InsertByCountReversed(acc, x) ==
    LET n == Cardinality({i \in 1..Len(acc) : acc[i][2] > x[2]}) IN
    SubSeq(acc, 1, n) \o <<x>> \o SubSeq(acc, n + 1, Len(acc))

\* sorted(items, key=count, reverse=True) is stable: an item goes after every
\* item already placed whose count is at least its own.
InsertByCount(acc, x) ==
    LET n == Cardinality({i \in 1..Len(acc) : acc[i][2] >= x[2]}) IN
    SubSeq(acc, 1, n) \o <<x>> \o SubSeq(acc, n + 1, Len(acc))

RECURSIVE SortByCount(_, _)
SortByCount(items, acc) ==
    IF items = <<>> THEN acc
    ELSE SortByCount(Tail(items), InsertByCount(acc, Head(items)))

\* Counter.most_common()
most_common(c) == SortByCount(c, <<>>)

counter_to_labels_values(c) ==
    LET items == most_common(c) IN
    [labels |-> [i \in 1..Len(items) |-> items[i][1]],
     values |-> [i \in 1..Len(items) |-> items[i][2]]]

\* ------------------------------------------------------------------------
\* admin_summary: the scan of payload_rows
\* ------------------------------------------------------------------------
\* counters[f][v] += 1: the untrimmed value as the key
CountSingleUntrimmed(c, v) ==
    IF IsStr(v) /\ Strip(v[2]) # <<>> THEN CounterInc(c, v[2]) ELSE c

\* if isinstance(v, str) and v.strip(): counters[f][v.strip()] += 1
CountSingle(c, v) ==
    IF IsStr(v) /\ Strip(v[2]) # <<>> THEN CounterInc(c, Strip(v[2])) ELSE c

\* for item in v: if isinstance(item, str) and item.strip(): ... += 1
RECURSIVE CountItems(_, _)
CountItems(c, items) ==
    IF items = <<>> THEN c
    ELSE CountItems(CountSingle(c, Head(items)), Tail(items))

CountMulti(c, v) == IF IsList(v) THEN CountItems(c, v[2]) ELSE c

EmptyScan ==
    [ok |-> TRUE, total |-> 0,
     counters |-> [i \in 1..Len(single_fields) |-> <<>>],
     multi_counters |-> [i \in 1..Len(multi_fields) |-> <<>>]]

\* "total += 1" in the except branch instead of after it
ScanPayloadMisplacedTotal(acc, payload_str) ==
    LET r == loads(payload_str)
        p == r[2]
    IN IF ~r[1] THEN [acc EXCEPT !.total = @ + 1]
       ELSE IF ~IsDict(p) THEN [acc EXCEPT !.ok = FALSE]
       ELSE [ok |-> TRUE,
             total |-> acc.total,
             counters |->
                [i \in 1..Len(single_fields) |->
                    CountSingle(acc.counters[i], DictGet(p, single_fields[i]))],
             multi_counters |->
                [i \in 1..Len(multi_fields) |->
                    CountMulti(acc.multi_counters[i], DictGet(p, multi_fields[i]))]]

\* One iteration of "for (payload_str,) in payload_rows".  json.loads raising
\* is caught (continue); p.get on a value that is no dict raises AttributeError,
\* which nothing catches.
ScanPayload(acc, payload_str) ==
    LET r == loads(payload_str)
        p == r[2]
    IN IF ~r[1] THEN acc
       ELSE IF ~IsDict(p) THEN [acc EXCEPT !.ok = FALSE, !.total = @ + 1]
       ELSE [ok |-> TRUE,
             total |-> acc.total + 1,
             counters |->
                [i \in 1..Len(single_fields) |->
                    CountSingle(acc.counters[i], DictGet(p, single_fields[i]))],
             multi_counters |->
                [i \in 1..Len(multi_fields) |->
                    CountMulti(acc.multi_counters[i], DictGet(p, multi_fields[i]))]]

\* The loop over payload_rows[lo..hi], left to right, starting from acc.  The
\* range is split in two so that the evaluation does not nest once per row.
RECURSIVE ScanRange(_, _, _, _)
ScanRange(payload_rows, lo, hi, acc) ==
    IF lo > hi \/ ~acc.ok THEN acc
    ELSE IF lo = hi THEN ScanPayload(acc, payload_rows[lo])
    ELSE LET mid == (lo + hi) \div 2
             left == ScanRange(payload_rows, lo, mid, acc)
         IN ScanRange(payload_rows, mid + 1, hi, left)

ScanRows(payload_rows, acc) == ScanRange(payload_rows, 1, Len(payload_rows), acc)

InternalError == [status |-> 500, kind |-> "error"]

\* The body admin_summary returns, or the 500 of an uncaught exception.
SummaryResponse(payload_rows) ==
    LET s == ScanRows(payload_rows, EmptyScan) IN
    IF ~s.ok THEN InternalError
    ELSE [status |-> 200, kind |-> "summary", total |-> s.total,
          single |-> [i \in 1..Len(single_fields) |->
                         counter_to_labels_values(s.counters[i])],
          multi |-> [i \in 1..Len(multi_fields) |->
                        counter_to_labels_values(s.multi_counters[i])]]

\* ------------------------------------------------------------------------
\* admin_list: the rows it returns
\* ------------------------------------------------------------------------
ListLimit == 200

\* json.loads(payload_str), or {"raw": payload_str} when it raises
DecodeOrRaw(payload_str) ==
    LET r == loads(payload_str) IN
    IF r[1] THEN r[2] ELSE JObj(<< <<K_raw, JStr(payload_str)>> >>)

ListResponse(rows) ==
    [status |-> 200, kind |-> "rows",
     rows |-> [i \in 1..Len(rows) |->
                 [id |-> rows[i].id, created_at |-> rows[i].created_at,
                  payload |-> DecodeOrRaw(rows[i].payload)]]]

\* ------------------------------------------------------------------------
\* Bounds and inputs
\* ------------------------------------------------------------------------
MaxRequests == 2
LargeRows == 200

Reqs == {1, 2}
\* values int(time.time()) takes
Times == {0, 1}

LabelA == <<"a">>
LabelB == <<"b">>

\* payloads a client submits
PayloadPlain ==
    JObj(<< <<F_age, JStr(LabelA)>>,
            <<F_why_use, JList(<<JStr(LabelA), JStr(LabelB)>>)>> >>)
PayloadOdd ==
    JObj(<< <<F_age, JStr(<<" ", "b", " ">>)>>,
            <<F_app_rating, JStr(<<" ">>)>>,
            <<F_will_use, JList(<<JStr(LabelA)>>)>>,
            <<F_ai_trust, JStr(<<QUOTE, BACKSLASH>>)>>,
            <<F_why_use, JList(<<JStr(LabelB), JStr(<<" ">>), JNum(10),
                                 JStr(<<"b", " ">>)>>)>>,
            <<F_signup, JStr(LabelA)>> >>)

\* request bodies of POST /submit
BodyInvalid == <<"{", QUOTE, "p">>
BodyNotObject == dumps(JList(<<>>))
BodyNoPayload == dumps(JObj(<<>>))
BodyStrPayload == dumps(JObj(<< <<K_payload, JStr(LabelA)>> >>))
BodyPlain == dumps(JObj(<< <<K_payload, PayloadPlain>> >>))
BodyOdd == dumps(JObj(<< <<K_payload, PayloadOdd>> >>))
Bodies ==
    {BodyInvalid, BodyNotObject, BodyNoPayload, BodyStrPayload, BodyPlain, BodyOdd}
NoBody == <<>>

\* payload texts a survey.db file may already hold
TextAgeA == dumps(JObj(<< <<F_age, JStr(LabelA)>> >>))
TextAgeB ==
    dumps(JObj(<< <<F_age, JStr(LabelB)>>,
                  <<F_payment, JList(<<JStr(LabelB), JStr(LabelA), JStr(LabelA)>>)>> >>))
TextUndecodable == <<"{", QUOTE, "a", "g", "e", QUOTE, ":">>
TextCut == <<"{">>
TextEmpty == dumps(JObj(<<>>))
TextNotObject == dumps(JList(<<JNum(1)>>))

Row(id, ts, text) == [id |-> id, created_at |-> ts, payload |-> text]

\* the database file found at start: <<table exists, rows, sqlite_sequence>>
DbFresh == <<FALSE, <<>>, 0>>
DbPlain == <<TRUE, <<Row(1, 0, TextAgeB), Row(2, 0, TextAgeA)>>, 2>>
DbUndecodable ==
    <<TRUE, <<Row(1, 0, TextAgeA), Row(3, 1, TextUndecodable), Row(4, 1, TextAgeB)>>, 5>>
DbNotObject == <<TRUE, <<Row(2, 0, TextAgeA), Row(3, 0, TextNotObject)>>, 3>>
DbLarge ==
    <<TRUE,
      [i \in 1..LargeRows |->
          Row(i + 1, 0, IF i % 64 = 0 THEN TextCut
                        ELSE IF i = 3 THEN TextAgeA ELSE TextEmpty)],
      LargeRows + 1>>
Databases == {DbFresh, DbPlain, DbUndecodable, DbNotObject}

\* ------------------------------------------------------------------------
\* State
\* ------------------------------------------------------------------------
VARIABLES
    table_exists,     \* the responses table exists in survey.db
    responses,        \* its committed rows, in rowid order
    sqlite_sequence,  \* the AUTOINCREMENT high-water mark
    write_lock,       \* the request whose connection holds the write lock, or 0
    orphans,          \* open connections no running request refers to
    handler,          \* per request slot: the route being served, or "idle"
    pc,               \* per request: its position in the handler
    body,             \* per request: the request body text
    payload,          \* per request: submit's local payload
    conn,             \* per request: "none", "open" or "closed"
    exc,              \* per request: an exception is propagating
    pending,          \* per request: the rows its open transaction inserted
    rows,             \* per request: the result of fetchall()
    resp,             \* per request: the response
    started,          \* number of requests received
    snap,             \* history: the table as the request's SELECT saw it
    assigned,         \* history: every id a committed submission got
    earlier,          \* history: per request, `assigned` before its commit
    called,           \* history: per request, saved.n when it was received
    added,            \* history: per request, the rows it has committed
    saved             \* history: the last submit that returned "saved";
                      \* further: a submit request was received after it

dbVars == <<table_exists, responses, sqlite_sequence, write_lock>>
reqVars == <<handler, pc, body, payload, conn, exc, pending, rows, resp>>
histVars == <<snap, assigned, earlier, called, added, saved>>
vars == <<dbVars, orphans, reqVars, started, histVars>>

NoResponse == [status |-> 0, kind |-> "none"]
NoSaved == [n |-> 0, S |-> JNull, earlier |-> {}, further |-> FALSE]

Ids(rs) == {rs[i].id : i \in 1..Len(rs)}
MaxOf(S) == IF S = {} THEN 0 ELSE CHOOSE x \in S : \A y \in S : y <= x

InitWith(db) ==
    /\ table_exists = db[1]
    /\ responses = db[2]
    /\ sqlite_sequence = db[3]
    /\ write_lock = 0
    /\ orphans = 0
    /\ handler = [r \in Reqs |-> "idle"]
    /\ pc = [r \in Reqs |-> "idle"]
    /\ body = [r \in Reqs |-> NoBody]
    /\ payload = [r \in Reqs |-> JNull]
    /\ conn = [r \in Reqs |-> "none"]
    /\ exc = [r \in Reqs |-> FALSE]
    /\ pending = [r \in Reqs |-> <<>>]
    /\ rows = [r \in Reqs |-> <<>>]
    /\ resp = [r \in Reqs |-> NoResponse]
    /\ started = 0
    /\ snap = [r \in Reqs |-> <<>>]
    /\ assigned = Ids(db[2])
    /\ earlier = [r \in Reqs |-> {}]
    /\ called = [r \in Reqs |-> 0]
    /\ added = [r \in Reqs |-> 0]
    /\ saved = NoSaved

Init == \E db \in Databases : InitWith(db)
InitLarge == InitWith(DbLarge) \/ InitWith(DbUndecodable)

\* ------------------------------------------------------------------------
\* The store statements
\* ------------------------------------------------------------------------
\* the id taken from the number of rows
NextIdByCount == Len(responses) + 1

\* AUTOINCREMENT: one more than the largest rowid the table ever held
NextId == MaxOf(Ids(responses) \cup {sqlite_sequence}) + 1

\* ORDER BY id ASC LIMIT 200
SelectOldest(table) ==
    LET n == IF Len(table) < ListLimit THEN Len(table) ELSE ListLimit IN
    [i \in 1..n |-> table[i]]

\* SELECT id, created_at, payload FROM responses ORDER BY id DESC LIMIT 200
SelectRecent(table) ==
    LET n == IF Len(table) < ListLimit THEN Len(table) ELSE ListLimit IN
    [i \in 1..n |-> table[Len(table) + 1 - i]]

\* SELECT payload FROM responses
SelectPayloads(table) == [i \in 1..Len(table) |-> table[i].payload]

\* ------------------------------------------------------------------------
\* Requests
\* ------------------------------------------------------------------------
\* Slots are interchangeable: a request takes the lowest idle one.
Receive(r, route, b, first) ==
    /\ pc[r] = "idle"
    /\ \A q \in Reqs : q < r => pc[q] # "idle"
    /\ started < MaxRequests
    /\ started' = started + 1
    /\ handler' = [handler EXCEPT ![r] = route]
    /\ pc' = [pc EXCEPT ![r] = first]
    /\ body' = [body EXCEPT ![r] = b]
    /\ called' = [called EXCEPT ![r] = saved.n]
    /\ saved' = [saved EXCEPT !.further = @ \/ (route = "submit" /\ saved.n > 0)]
    /\ UNCHANGED <<dbVars, orphans, payload, conn, exc, pending, rows, resp,
                   snap, assigned, earlier, added>>

ReceiveSubmit(r) == \E b \in Bodies : Receive(r, "submit", b, "parse")
ReceiveList(r) == Receive(r, "admin_list", NoBody, "get_conn")
ReceiveSummary(r) == Receive(r, "admin_summary", NoBody, "get_conn")
ReceiveHealth(r) == Receive(r, "health", NoBody, "return")

Respond(r, response) ==
    /\ resp' = [resp EXCEPT ![r] = response]
    /\ pc' = [pc EXCEPT ![r] = "done"]

\* health()
health(r) ==
    /\ handler[r] = "health" /\ pc[r] = "return"
    /\ Respond(r, [status |-> 200, kind |-> "ok"])
    /\ UNCHANGED <<dbVars, orphans, handler, body, payload, conn, exc, pending,
                   rows, started, histVars>>

BadRequest == [status |-> 400, kind |-> "error"]

\* submit, up to the isinstance check: request.json() raising and body.get on
\* a body that is no dict are uncaught (500); a payload that is no dict is
\* the HTTPException (400).
SubmitParse(r) ==
    /\ handler[r] = "submit" /\ pc[r] = "parse"
    /\ LET b == loads(body[r]) IN
       IF ~b[1] \/ ~IsDict(b[2])
       THEN Respond(r, InternalError) /\ UNCHANGED payload
       ELSE IF ~IsDict(DictGet(b[2], K_payload))
       THEN Respond(r, BadRequest) /\ UNCHANGED payload
       ELSE /\ payload' = [payload EXCEPT ![r] = DictGet(b[2], K_payload)]
            /\ pc' = [pc EXCEPT ![r] = "get_conn"]
            /\ UNCHANGED resp
    /\ UNCHANGED <<dbVars, orphans, handler, body, conn, exc, pending, rows,
                   started, histVars>>

AfterGetConn(r) == IF handler[r] = "submit" THEN "insert" ELSE "select"

\* get_conn(): connect, CREATE TABLE IF NOT EXISTS, return conn.  Creating a
\* missing table writes, so it needs the write lock to be free.
GetConn(r) ==
    /\ pc[r] = "get_conn"
    /\ table_exists \/ write_lock = 0
    /\ conn' = [conn EXCEPT ![r] = "open"]
    /\ table_exists' = TRUE
    /\ pc' = [pc EXCEPT ![r] = AfterGetConn(r)]
    /\ UNCHANGED <<responses, sqlite_sequence, write_lock, orphans, handler,
                   body, payload, exc, pending, rows, resp, started, histVars>>

\* sqlite3.connect raises: no connection was opened; the handler ends in 500.
ConnectError(r) ==
    /\ pc[r] = "get_conn"
    /\ Respond(r, InternalError)
    /\ UNCHANGED <<dbVars, orphans, handler, body, payload, conn, exc, pending,
                   rows, started, histVars>>

\* conn.execute(CREATE TABLE ...) raises inside get_conn: the exception leaves
\* get_conn and the handler (which has not entered its try), and nothing calls
\* conn.close().
CreateTableError(r) ==
    /\ pc[r] = "get_conn"
    /\ conn' = [conn EXCEPT ![r] = "open"]
    /\ Respond(r, InternalError)
    /\ UNCHANGED <<dbVars, orphans, handler, body, payload, exc, pending, rows,
                   started, histVars>>

\* conn.execute("INSERT INTO responses(created_at, payload) VALUES (?, ?)", ...)
Insert(r) ==
    /\ handler[r] = "submit" /\ pc[r] = "insert"
    /\ write_lock = 0
    /\ \E t \in Times :
          pending' = [pending EXCEPT ![r] = <<Row(NextId, t, dumps(payload[r]))>>]
    /\ write_lock' = r
    /\ pc' = [pc EXCEPT ![r] = "commit"]
    /\ UNCHANGED <<table_exists, responses, sqlite_sequence, orphans, handler,
                   body, payload, conn, exc, rows, resp, started, histVars>>

\* A statement inside the try raises (the database is locked, I/O error):
\* control goes to the finally clause.
Raise(r) ==
    /\ exc' = [exc EXCEPT ![r] = TRUE]
    /\ pc' = [pc EXCEPT ![r] = "close"]
    /\ UNCHANGED <<dbVars, orphans, handler, body, payload, conn, pending, rows,
                   resp, started, histVars>>

InsertError(r) == handler[r] = "submit" /\ pc[r] = "insert" /\ Raise(r)

\* INSERT OR REPLACE onto the last row
ReplaceLastRow(table, new) ==
    IF table = <<>> THEN new ELSE SubSeq(table, 1, Len(table) - 1) \o new

\* what the committed INSERT does to the table
InsertRows(table, new) == table \o new

\* conn.commit()
Commit(r) ==
    /\ handler[r] = "submit" /\ pc[r] = "commit"
    /\ responses' = InsertRows(responses, pending[r])
    /\ added' = [added EXCEPT ![r] = @ + Len(pending[r])]
    /\ sqlite_sequence' = pending[r][1].id
    /\ write_lock' = 0
    /\ pending' = [pending EXCEPT ![r] = <<>>]
    /\ pc' = [pc EXCEPT ![r] = "close"]
    /\ assigned' = assigned \cup {pending[r][1].id}
    /\ earlier' = [earlier EXCEPT ![r] = assigned]
    /\ UNCHANGED <<table_exists, orphans, handler, body, payload, conn, exc,
                   rows, resp, started, snap, called, saved>>

CommitError(r) == handler[r] = "submit" /\ pc[r] = "commit" /\ Raise(r)

\* admin_list: cur.execute(SELECT ... LIMIT 200); rows = cur.fetchall()
ListSelect(r) ==
    /\ handler[r] = "admin_list" /\ pc[r] = "select"
    /\ rows' = [rows EXCEPT ![r] = SelectRecent(responses)]
    /\ snap' = [snap EXCEPT ![r] = responses]
    /\ pc' = [pc EXCEPT ![r] = "close"]
    /\ UNCHANGED <<dbVars, orphans, handler, body, payload, conn, exc, pending,
                   resp, started, assigned, earlier, called, added, saved>>

\* admin_summary: cur.execute(SELECT payload ...); payload_rows = cur.fetchall()
SummarySelect(r) ==
    /\ handler[r] = "admin_summary" /\ pc[r] = "select"
    /\ rows' = [rows EXCEPT ![r] = SelectPayloads(responses)]
    /\ snap' = [snap EXCEPT ![r] = responses]
    /\ pc' = [pc EXCEPT ![r] = "close"]
    /\ UNCHANGED <<dbVars, orphans, handler, body, payload, conn, exc, pending,
                   resp, started, assigned, earlier, called, added, saved>>

SelectError(r) ==
    /\ handler[r] \in {"admin_list", "admin_summary"} /\ pc[r] = "select"
    /\ Raise(r)

\* finally: conn.close().  Closing rolls back a transaction that was not
\* committed.  An exception in flight then ends the request in 500; otherwise
\* the handler goes on to its return value `response`, which it computes from
\* its locals alone; the fetched rows go out of scope with the return.
Close(r, response) ==
    /\ pc[r] = "close"
    /\ conn' = [conn EXCEPT ![r] = "closed"]
    /\ write_lock' = IF write_lock = r THEN 0 ELSE write_lock
    /\ pending' = [pending EXCEPT ![r] = <<>>]
    /\ Respond(r, IF exc[r] THEN InternalError ELSE response)
    /\ rows' = [rows EXCEPT ![r] = <<>>]
    /\ UNCHANGED <<table_exists, responses, sqlite_sequence, orphans, handler,
                   body, payload, exc, started, snap, assigned, earlier,
                   called, added>>

\* submit: finally, then return {"status": "saved"}
SubmitClose(r) ==
    /\ handler[r] = "submit"
    /\ Close(r, [status |-> 200, kind |-> "saved"])
    /\ saved' = IF exc[r] THEN saved
                ELSE [n |-> saved.n + 1, S |-> payload[r],
                      earlier |-> earlier[r], further |-> FALSE]

\* admin_list: finally, then the loop over rows and return {"rows": out}
ListClose(r) ==
    /\ handler[r] = "admin_list"
    /\ Close(r, ListResponse(rows[r]))
    /\ UNCHANGED saved

\* admin_summary: finally, then the scan, counter_to_labels_values and
\* return summary
SummaryClose(r) ==
    /\ handler[r] = "admin_summary"
    /\ Close(r, SummaryResponse(rows[r]))
    /\ UNCHANGED saved

\* The response is sent and the request's frame is dropped; a connection it
\* never closed stays open until its finalizer runs.
Finish(r) ==
    /\ pc[r] = "done"
    /\ orphans' = IF conn[r] = "open" THEN orphans + 1 ELSE orphans
    /\ handler' = [handler EXCEPT ![r] = "idle"]
    /\ pc' = [pc EXCEPT ![r] = "idle"]
    /\ body' = [body EXCEPT ![r] = NoBody]
    /\ payload' = [payload EXCEPT ![r] = JNull]
    /\ conn' = [conn EXCEPT ![r] = "none"]
    /\ exc' = [exc EXCEPT ![r] = FALSE]
    /\ resp' = [resp EXCEPT ![r] = NoResponse]
    /\ snap' = [snap EXCEPT ![r] = <<>>]
    /\ earlier' = [earlier EXCEPT ![r] = {}]
    /\ called' = [called EXCEPT ![r] = 0]
    /\ added' = [added EXCEPT ![r] = 0]
    /\ UNCHANGED <<dbVars, pending, rows, started, assigned, saved>>

\* The garbage collector finalizes an unreferenced sqlite3.Connection.
Finalize ==
    /\ orphans > 0
    /\ orphans' = orphans - 1
    /\ UNCHANGED <<dbVars, reqVars, started, histVars>>

Next ==
    \/ \E r \in Reqs : ReceiveSubmit(r)
    \/ \E r \in Reqs : ReceiveList(r)
    \/ \E r \in Reqs : ReceiveSummary(r)
    \/ \E r \in Reqs : ReceiveHealth(r)
    \/ \E r \in Reqs : health(r)
    \/ \E r \in Reqs : SubmitParse(r)
    \/ \E r \in Reqs : GetConn(r)
    \/ \E r \in Reqs : ConnectError(r)
    \/ \E r \in Reqs : CreateTableError(r)
    \/ \E r \in Reqs : Insert(r)
    \/ \E r \in Reqs : InsertError(r)
    \/ \E r \in Reqs : Commit(r)
    \/ \E r \in Reqs : CommitError(r)
    \/ \E r \in Reqs : ListSelect(r)
    \/ \E r \in Reqs : SummarySelect(r)
    \/ \E r \in Reqs : SelectError(r)
    \/ \E r \in Reqs : SubmitClose(r)
    \/ \E r \in Reqs : ListClose(r)
    \/ \E r \in Reqs : SummaryClose(r)
    \/ \E r \in Reqs : Finish(r)
    \/ Finalize

Spec == Init /\ [][Next]_vars
SpecLarge == InitLarge /\ [][Next]_vars

\* ------------------------------------------------------------------------
\* Properties
\* ------------------------------------------------------------------------
Done(r, route) == handler[r] = route /\ pc[r] = "done"

\* the request read the table and closed its connection without an exception
ReadDone(r, route) == Done(r, route) /\ conn[r] = "closed" /\ ~exc[r]

ListOk(r) == Done(r, "admin_list") /\ resp[r].status = 200
SummaryOk(r) == Done(r, "admin_summary") /\ resp[r].status = 200

RECURSIVE SumSeq(_)
SumSeq(q) == IF q = <<>> THEN 0 ELSE Head(q) + SumSeq(Tail(q))

MinOf(S) == CHOOSE x \in S : \A y \in S : x <= y

\* what a stored text decodes to, and whether it is a stored submission
Decoded(text) == loads(text)[2]
IsObjectText(text) == loads(text)[1] /\ IsDict(loads(text)[2])
ObjectRows(table) == {k \in 1..Len(table) : IsObjectText(table[k].payload)}

\* the value of field f in row k of the table
FieldOf(table, k, f) == DictGet(Decoded(table[k].payload), f)

IsLabel(v, L) == IsStr(v) /\ Strip(v[2]) = L

\* rows whose value of the single field f is a string equal to L after trimming
SingleHits(table, f, L) ==
    {k \in ObjectRows(table) : IsLabel(FieldOf(table, k, f), L)}

\* <<row, element>> positions of the multi field f holding L after trimming
MultiHits(table, f, L) ==
    UNION {{<<k, j>> : j \in {j \in 1..Len(FieldOf(table, k, f)[2]) :
                                 IsLabel(FieldOf(table, k, f)[2][j], L)}} :
           k \in {k \in ObjectRows(table) : IsList(FieldOf(table, k, f))}}

\* the count a histogram reports for L (0 when L is not a label)
Reported(h, L) ==
    IF \E i \in 1..Len(h.labels) : h.labels[i] = L
    THEN h.values[CHOOSE i \in 1..Len(h.labels) : h.labels[i] = L]
    ELSE 0

\* labels looked up: the ones in the histogram and the ones clients use
Probe(h) ==
    {h.labels[i] : i \in 1..Len(h.labels)}
        \cup {LabelA, LabelB, <<QUOTE, BACKSLASH>>, <<"b", " ">>, <<"1", "0">>}

CountsMatch(r) ==
    /\ \A i \in 1..Len(single_fields) : \A L \in Probe(resp[r].single[i]) \ {<<>>} :
          Reported(resp[r].single[i], L)
              = Cardinality(SingleHits(snap[r], single_fields[i], L))
    /\ \A i \in 1..Len(multi_fields) : \A L \in Probe(resp[r].multi[i]) \ {<<>>} :
          Reported(resp[r].multi[i], L)
              = Cardinality(MultiHits(snap[r], multi_fields[i], L))

\* C1: once submit(S) has returned "saved", an admin_list call received after
\* it and before any further submit returns a row whose payload equals S and
\* whose id is greater than every id assigned to an earlier submission.
C1_ListShowsSubmission ==
    \A r \in Reqs :
        (ListOk(r) /\ saved.n > 0 /\ called[r] = saved.n /\ ~saved.further)
        => \E i \in 1..Len(resp[r].rows) :
              /\ resp[r].rows[i].payload = saved.S
              /\ \A id \in saved.earlier : resp[r].rows[i].id > id

C1_Witness ==
    \E r \in Reqs :
        /\ ListOk(r) /\ saved.n > 0 /\ called[r] = saved.n /\ ~saved.further
        /\ saved.earlier # {}
        /\ saved.S = PayloadOdd
        /\ Len(resp[r].rows) >= 3

\* C2: for every content of the store, admin_summary answers with histograms
\* in which each label's count is the number of stored submissions (single
\* field) or of list elements (multi field) equal to the label after trimming.
C2_SummaryCounts ==
    \A r \in Reqs :
        ReadDone(r, "admin_summary") => (resp[r].status = 200 /\ CountsMatch(r))

\* The counts are right whenever admin_summary answers at all.
SummaryCountsWhenAnswered ==
    \A r \in Reqs : SummaryOk(r) => CountsMatch(r)

\* C3: total is the number of stored payloads that parse as JSON objects; any
\* other stored payload is skipped and never makes the summary call fail.
C3_TotalCountsObjects ==
    \A r \in Reqs :
        ReadDone(r, "admin_summary")
        => /\ resp[r].kind = "summary"
           /\ resp[r].total = Cardinality(ObjectRows(snap[r]))

\* Undecodable payloads alone are skipped: with every decodable payload an
\* object, the call answers and total counts the objects.
TotalWhenDecodedAreObjects ==
    \A r \in Reqs :
        (/\ ReadDone(r, "admin_summary")
         /\ \A k \in 1..Len(snap[r]) :
               loads(snap[r][k].payload)[1] => IsObjectText(snap[r][k].payload))
        => /\ resp[r].kind = "summary"
           /\ resp[r].total = Cardinality(ObjectRows(snap[r]))

\* C4: in every admin_summary response the values of each single field's
\* histogram sum to at most the response's total.
C4_SingleSumAtMostTotal ==
    \A r \in Reqs :
        SummaryOk(r)
        => \A i \in 1..Len(single_fields) :
              SumSeq(resp[r].single[i].values) <= resp[r].total

\* a summary answered after a submit committed behind its SELECT
C4_Witness ==
    \E r \in Reqs :
        /\ SummaryOk(r)
        /\ responses # snap[r]
        /\ SumSeq(resp[r].single[1].values) = resp[r].total
        /\ resp[r].total >= 2
        /\ SumSeq(resp[r].single[2].values) < resp[r].total

\* where the scan first meets label L of a single / multi field
FirstSingle(table, f, L) == MinOf(SingleHits(table, f, L))
FirstMulti(table, f, L) ==
    LET hits == MultiHits(table, f, L)
        k == MinOf({h[1] : h \in hits})
    IN <<k, MinOf({h[2] : h \in {x \in hits : x[1] = k}})>>
Before(a, b) == a[1] < b[1] \/ (a[1] = b[1] /\ a[2] < b[2])

\* C5: labels and values are parallel, values never increase, and labels with
\* equal counts stand in the order the scan first met them.
C5_HistogramOrder ==
    \A r \in Reqs :
        SummaryOk(r)
        => /\ \A i \in 1..Len(single_fields) :
                LET h == resp[r].single[i] IN
                /\ Len(h.labels) = Len(h.values)
                /\ \A a, b \in 1..Len(h.labels) :
                      a < b =>
                        /\ h.values[a] >= h.values[b]
                        /\ h.values[a] = h.values[b] =>
                              FirstSingle(snap[r], single_fields[i], h.labels[a])
                                < FirstSingle(snap[r], single_fields[i], h.labels[b])
           /\ \A i \in 1..Len(multi_fields) :
                LET h == resp[r].multi[i] IN
                /\ Len(h.labels) = Len(h.values)
                /\ \A a, b \in 1..Len(h.labels) :
                      a < b =>
                        /\ h.values[a] >= h.values[b]
                        /\ h.values[a] = h.values[b] =>
                              Before(FirstMulti(snap[r], multi_fields[i], h.labels[a]),
                                     FirstMulti(snap[r], multi_fields[i], h.labels[b]))

\* a tie kept in scan order (b before a) next to a histogram the sort reordered
C5_Witness ==
    \E r \in Reqs :
        /\ SummaryOk(r)
        /\ resp[r].single[1] = [labels |-> <<LabelB, LabelA>>, values |-> <<1, 1>>]
        /\ resp[r].multi[3] = [labels |-> <<LabelA, LabelB>>, values |-> <<2, 1>>]

\* the request's payload field is missing or is no JSON object
PayloadRejected(b) ==
    /\ loads(b)[1]
    /\ ~(IsDict(loads(b)[2]) /\ IsDict(DictGet(loads(b)[2], K_payload)))

\* C6: a submit whose payload field is missing or is no object is answered
\* with 400 and touches no row.
C6_Rejected400 ==
    \A r \in Reqs :
        (Done(r, "submit") /\ PayloadRejected(body[r]))
        => (resp[r].status = 400 /\ conn[r] = "none" /\ added[r] = 0)

\* The same for a request body that is itself a JSON object.
Rejected400WhenBodyIsObject ==
    \A r \in Reqs :
        (Done(r, "submit") /\ PayloadRejected(body[r]) /\ IsDict(loads(body[r])[2]))
        => (resp[r].status = 400 /\ conn[r] = "none" /\ added[r] = 0)

\* C7: with N rows stored, admin_list returns min(N, 200) rows, those with
\* the highest ids, in strictly descending id order, undecodable ones included.
C7_ListRecent ==
    \A r \in Reqs :
        ListOk(r)
        => LET out == resp[r].rows
               N == Len(snap[r])
               outKeys == {<<out[a].id, out[a].created_at>> : a \in 1..Len(out)}
               snapKeys == {<<snap[r][k].id, snap[r][k].created_at>> : k \in 1..N}
               lowest == MinOf({key[1] : key \in outKeys})
           IN /\ Len(out) = IF N < 200 THEN N ELSE 200
              /\ \A a \in 1..Len(out) - 1 : out[a].id > out[a + 1].id
              /\ outKeys \subseteq snapKeys
              /\ \A key \in snapKeys \ outKeys : key[1] < lowest

\* more than 200 rows stored, an undecodable one among those returned
C7_Witness ==
    \E r \in Reqs :
        /\ ListOk(r)
        /\ Len(snap[r]) > 200
        /\ Len(resp[r].rows) = 200
        /\ \E a \in 1..200 :
              resp[r].rows[a].payload = JObj(<< <<K_raw, JStr(TextCut)>> >>)

AllLabels(r) ==
    UNION ({{resp[r].single[i].labels[k] : k \in 1..Len(resp[r].single[i].labels)} :
              i \in 1..Len(single_fields)}
           \cup
           {{resp[r].multi[i].labels[k] : k \in 1..Len(resp[r].multi[i].labels)} :
              i \in 1..Len(multi_fields)})

\* C8: no histogram label is empty or whitespace-only, and every label is its
\* own trimmed form.
C8_LabelsTrimmed ==
    \A r \in Reqs :
        SummaryOk(r)
        => \A L \in AllLabels(r) :
              /\ L # <<>>
              /\ \E k \in 1..Len(L) : L[k] \notin Whitespace
              /\ L[1] \notin Whitespace /\ L[Len(L)] \notin Whitespace

\* a summary over a payload with a blank answer and answers to be trimmed
C8_Witness ==
    \E r \in Reqs :
        /\ SummaryOk(r)
        /\ \E k \in 1..Len(snap[r]) : Decoded(snap[r][k].payload) = PayloadOdd
        /\ resp[r].single[2].labels = <<>>
        /\ LabelB \in AllLabels(r)

\* C9: when a request has ended, no connection it opened is still open.
C9_NoOpenConnectionAtEnd ==
    \A r \in Reqs : pc[r] = "done" => conn[r] # "open"

\* The try/finally part of the claim: once a handler has get_conn's result,
\* every exit closes it.
ClosedAfterTry ==
    \A r \in Reqs : (pc[r] = "done" /\ exc[r]) => conn[r] = "closed"

\* C10: no step changes or removes a stored row; only a submit's commit adds
\* one, and a request ends having added one row exactly when it is a submit
\* answered "saved".
C10_Step ==
    /\ Len(responses') >= Len(responses)
    /\ Len(responses') <= Len(responses) + 1
    /\ \A k \in 1..Len(responses) : responses'[k] = responses[k]
    /\ responses' # responses =>
          \E r \in Reqs : /\ handler[r] = "submit" /\ pc[r] = "commit"
                          /\ IsDict(payload[r])
                          /\ responses'[Len(responses')].id \notin Ids(responses)
    /\ \A r \in Reqs :
          (pc[r] # "done" /\ pc'[r] = "done")
          => added'[r] = IF handler[r] = "submit" /\ resp'[r].status = 200
                         THEN 1 ELSE 0

C10_AppendOnly == [][C10_Step]_vars

C10_Witness ==
    \E r \in Reqs :
        /\ Done(r, "submit") /\ resp[r].status = 200
        /\ Len(responses) = 4
        /\ \E q \in Reqs : Done(q, "admin_summary")

====
